---- MODULE Spec2Model ----
(***************************************************************************)
(* Password Site Blocker (browser extension).                              *)
(*                                                                         *)
(* The model covers                                                        *)
(*   - chrome.storage (blockedStorage, blockedSites per area, masterHash), *)
(*   - the options page with the removal confirmation (the second half of  *)
(*     src/background.js) and the options page without it                  *)
(*     (src/options/options.js),                                           *)
(*   - the background worker (first half of src/background.js),            *)
(*   - the content script and the overlay (src/content.js,                 *)
(*     src/blocker/blocker.js).                                            *)
(*                                                                         *)
(* Strings are TLA+ strings; trimming, lower-casing, prefix, suffix and    *)
(* substring tests are computed character by character.  Every `await` of  *)
(* the source is a step boundary: the step that resumes a handler applies  *)
(* the awaited storage operation and runs the handler up to its next       *)
(* await.  Storage operations are assumed to succeed.                      *)
(***************************************************************************)
EXTENDS Naturals, Sequences, FiniteSets, Bags, TLC

\* ------------------------------------------------------------------------
\* Bounds of the model
\* ------------------------------------------------------------------------

\* longest text (in lines) typed into the block-list textarea, and longest
\* blockedSites array of an imported file
MaxLines == 2

\* most handlers of the options page running at the same time
MaxInFlight == 1

\* most checks, messages and handlers of the blocking side under way at the
\* same time
MaxPending == 1

\* longest list of patterns handed to isUrlBlocked on its own
MaxRules == 2

\* most checks, messages and handlers under way at the same time where the
\* overlay of one page is followed
MaxOverlayPending == 2

\* ------------------------------------------------------------------------
\* Strings
\* ------------------------------------------------------------------------

CharAt(s, i) == SubSeq(s, i, i)

IsSpace(c) == c = " "

RECURSIVE TrimStart(_)
TrimStart(s) ==
  IF Len(s) = 0 THEN s
  ELSE IF IsSpace(CharAt(s, 1)) THEN TrimStart(SubSeq(s, 2, Len(s)))
  ELSE s

RECURSIVE TrimEnd(_)
TrimEnd(s) ==
  IF Len(s) = 0 THEN s
  ELSE IF IsSpace(CharAt(s, Len(s))) THEN TrimEnd(SubSeq(s, 1, Len(s) - 1))
  ELSE s

\* String.prototype.trim
Trim(s) == TrimEnd(TrimStart(s))

Range(f) == {f[i] : i \in DOMAIN f}

\* all sequences over S of length at most n
SeqsUpTo(S, n) == UNION {[1..k -> S] : k \in 0..n}

\* Array.prototype.filter(x => !drop.has(x)), order kept
RECURSIVE Without(_, _)
Without(arr, drop) ==
  IF arr = <<>> THEN <<>>
  ELSE IF Head(arr) \in drop THEN Without(Tail(arr), drop)
  ELSE <<Head(arr)>> \o Without(Tail(arr), drop)

\* the "seen" loop of parseSites / normalizeSites: first occurrences, in order
RECURSIVE Dedup(_, _)
Dedup(arr, seen) ==
  IF arr = <<>> THEN <<>>
  ELSE IF Head(arr) \in seen THEN Dedup(Tail(arr), seen)
  ELSE <<Head(arr)>> \o Dedup(Tail(arr), seen \cup {Head(arr)})

RECURSIVE MapTrim(_)
MapTrim(arr) ==
  IF arr = <<>> THEN <<>> ELSE <<Trim(Head(arr))>> \o MapTrim(Tail(arr))

\* String.prototype.startsWith
StartsWith(s, p) == Len(p) <= Len(s) /\ SubSeq(s, 1, Len(p)) = p

\* String.prototype.endsWith
EndsWith(s, p) == Len(p) <= Len(s) /\ SubSeq(s, Len(s) - Len(p) + 1, Len(s)) = p

\* String.prototype.includes
Includes(s, p) ==
  \E i \in 1..(Len(s) + 1) : i + Len(p) - 1 <= Len(s) /\ SubSeq(s, i, i + Len(p) - 1) = p

\* String.prototype.indexOf, 0 when c does not occur (positions count from 1)
IndexOf(s, c) ==
  IF Includes(s, c)
  THEN CHOOSE i \in 1..Len(s) :
         /\ SubSeq(s, i, i + Len(c) - 1) = c
         /\ \A j \in 1..(i - 1) : SubSeq(s, j, j + Len(c) - 1) # c
  ELSE 0

UpperCase == "ABCDEFGHIJKLMNOPQRSTUVWXYZ"
LowerCase == "abcdefghijklmnopqrstuvwxyz"

RECURSIVE ToLowerCase(_)
\* String.prototype.toLowerCase
ToLowerCase(s) ==
  IF Len(s) = 0 THEN s
  ELSE LET c == CharAt(s, 1)
           k == IndexOf(UpperCase, c)
       IN (IF k = 0 THEN c ELSE CharAt(LowerCase, k))
            \o ToLowerCase(SubSeq(s, 2, Len(s)))

RECURSIVE ToUpperCase(_)
\* String.prototype.toUpperCase
ToUpperCase(s) ==
  IF Len(s) = 0 THEN s
  ELSE LET c == CharAt(s, 1)
           k == IndexOf(LowerCase, c)
       IN (IF k = 0 THEN c ELSE CharAt(UpperCase, k))
            \o ToUpperCase(SubSeq(s, 2, Len(s)))

\* s up to the first occurrence of c, all of s when c does not occur
Before(s, c) == IF Includes(s, c) THEN SubSeq(s, 1, IndexOf(s, c) - 1) ELSE s

\* s after the first occurrence of c, all of s when c does not occur
After(s, c) ==
  IF Includes(s, c) THEN SubSeq(s, IndexOf(s, c) + Len(c), Len(s)) ELSE s

\* ------------------------------------------------------------------------
\* Background worker: pure helpers (src/background.js, 20-84)
\* ------------------------------------------------------------------------

\* new URL(url).hostname of a URL with an authority: the authority is what
\* follows "//" up to the first "/", "?" or "#", without user info and port,
\* in lower case (the worker uses the hosts of http and https URLs, which
\* the parser lower-cases, and lower-cases the others before matching)
HttpHostname(rest) ==
  ToLowerCase(Before(After(Before(Before(Before(rest, "/"), "?"), "#"), "@"), ":"))

\* a URL scheme: letters (schemes with digits, "+", "-", "." are left out)
IsScheme(s) ==
  /\ Len(s) > 0
  /\ \A i \in 1..Len(s) : Includes(UpperCase, CharAt(s, i)) \/ Includes(LowerCase, CharAt(s, i))

\* getHost(url): the hostname, "" when the URL does not parse (a string
\* without a scheme, an http(s) URL without a host) or has no host
\* (about:blank, data:, file:///...)
getHost(url) ==
  IF Includes(url, "://") /\ IsScheme(Before(url, "://"))
  THEN HttpHostname(After(url, "://"))
  ELSE ""

\* getBlockedSites, line 45: trim, drop the empty strings, deduplicate
cleanedSites(list) == Dedup(Without(MapTrim(list), {""}), {})

\* patternMatches comparing the pattern as written, without lower-casing it
patternMatchesCaseSensitive(href, host, raw) ==
  LET p == Trim(raw)
      pn == IF StartsWith(p, "*.") THEN SubSeq(p, 3, Len(p)) ELSE p
  IN IF p = "" THEN FALSE
     ELSE IF StartsWith(p, "http://") \/ StartsWith(p, "https://")
       THEN StartsWith(href, p)
     ELSE IF Includes(p, "/") THEN Includes(href, p)
     ELSE host = pn \/ EndsWith(host, "." \o pn) \/ Includes(host, pn)

\* patternMatches that keeps a leading "*." in a bare domain
patternMatchesNoStar(href, host, raw) ==
  LET p == ToLowerCase(Trim(raw))
  IN IF p = "" THEN FALSE
     ELSE IF StartsWith(p, "http://") \/ StartsWith(p, "https://")
       THEN StartsWith(href, p)
     ELSE IF Includes(p, "/") THEN Includes(href, p)
     ELSE host = p \/ EndsWith(host, "." \o p) \/ Includes(host, p)

\* patternMatches that goes on to the substring test when the prefix test of
\* a pattern with a scheme fails
patternMatchesFallThrough(href, host, raw) ==
  LET p == ToLowerCase(Trim(raw))
      pn == IF StartsWith(p, "*.") THEN SubSeq(p, 3, Len(p)) ELSE p
  IN IF p = "" THEN FALSE
     ELSE IF (StartsWith(p, "http://") \/ StartsWith(p, "https://")) /\ StartsWith(href, p)
       THEN TRUE
     ELSE IF Includes(p, "/") THEN Includes(href, p)
     ELSE host = pn \/ EndsWith(host, "." \o pn) \/ Includes(host, pn)

\* patternMatches that looks for a pattern with a path in the host
patternMatchesPathOnHost(href, host, raw) ==
  LET p == ToLowerCase(Trim(raw))
      pn == IF StartsWith(p, "*.") THEN SubSeq(p, 3, Len(p)) ELSE p
  IN IF p = "" THEN FALSE
     ELSE IF StartsWith(p, "http://") \/ StartsWith(p, "https://")
       THEN StartsWith(href, p)
     ELSE host = pn \/ EndsWith(host, "." \o pn) \/ Includes(host, pn)

\* one turn of the loop of isUrlBlocked (lines 63-81) for the pattern raw:
\* TRUE when the loop returns true at this pattern
patternMatches(href, host, raw) ==
  LET p == ToLowerCase(Trim(raw))
      pn == IF StartsWith(p, "*.") THEN SubSeq(p, 3, Len(p)) ELSE p
  IN IF p = "" THEN FALSE
     ELSE IF StartsWith(p, "http://") \/ StartsWith(p, "https://")
       THEN StartsWith(href, p)
     ELSE IF Includes(p, "/") THEN Includes(href, p)
     ELSE host = pn \/ EndsWith(host, "." \o pn) \/ Includes(host, pn)

\* the loop of isUrlBlocked giving up at the first pattern that does not match
matchLoopFirstOnly(href, host, patterns) ==
  IF patterns = <<>> THEN FALSE ELSE patternMatches(href, host, Head(patterns))

RECURSIVE matchLoop(_, _, _)
\* the loop of isUrlBlocked (lines 62-83): the patterns in their order, true
\* at the first one that matches, false at the end
matchLoop(href, host, patterns) ==
  IF patterns = <<>> THEN FALSE
  ELSE IF patternMatches(href, host, Head(patterns)) THEN TRUE
  ELSE matchLoop(href, host, Tail(patterns))

\* isUrlBlocked that matches a URL without a host
isUrlBlockedNoHostTest(url, patterns) ==
  LET href == ToLowerCase(url)
      host == ToLowerCase(getHost(url))
  IN IF href = "" THEN FALSE
     ELSE matchLoop(href, host, patterns)

\* isUrlBlocked(url, patterns)
isUrlBlocked(url, patterns) ==
  LET href == ToLowerCase(url)
      host == ToLowerCase(getHost(url))
  IN IF href = "" \/ host = "" THEN FALSE
     ELSE matchLoop(href, host, patterns)

\* ------------------------------------------------------------------------
\* Options page: pure helpers
\* ------------------------------------------------------------------------

\* parseSites(text): the text is given as the sequence of its lines
parseSites(text) == Dedup(Without(MapTrim(text), {""}), {})

\* normalizeSites(list)
normalizeSites(list) == Dedup(Without(MapTrim(list), {""}), {})

\* arrayRemoved(oldArr, newArr)
arrayRemoved(oldArr, newArr) == Without(oldArr, Range(newArr))

\* sha256Hex(str): an injective map onto non-empty strings (no collisions);
\* the digest of the empty string is a digest like any other
sha256Hex(str) == "sha256:" \o str

\* ------------------------------------------------------------------------
\* Inputs
\* ------------------------------------------------------------------------

Areas == {"sync", "local"}

\* lines a user types into the block list / entries of an imported array
Lines == {"", "a.io", " a.io", "B.io/x"}

\* what a user types into a password field
Passwords == {"", " pw ", "no"}

\* what a user types into the new-password field of the options page
NewPasswords == {"", " ", " pw "}

\* entries of the blockedSites array of an imported file
ImportLines == {"a.io", " a.io"}

Texts == SeqsUpTo(Lines, MaxLines)

\* URLs the tabs navigate to: one that a host rule covers, one that a rule
\* with a path covers, one that no rule covers, one without a host
NavUrls == {"https://a.io/", "https://b.io/x", "https://b.io/", "about:blank"}

Hosts == {getHost(u) : u \in NavUrls} \ {""}

\* the rule lists that the options page stores while tabs are checked
BlockLists == {<<>>, <<" A.io", "b.io/x">>}

\* the digests that the options page stores: none, and that of "pw"
Hashes == {"", sha256Hex("pw")}

\* URLs handed to isUrlBlocked on its own: with a host, in several letter
\* cases, with a path, with another URL in the query; and strings that do not
\* parse or have no host
MatchUrls ==
  {"https://instagram.com/", "https://www.FACEBOOK.com/feed",
   "https://twitter.com/home", "https://twitter.com/explore/tabs/for-you",
   "https://x.io/?u=http://a.io", "http://a.io/p",
   "", "about:blank", "facebook.com/feed", "file:///twitter.com/explore"}

\* patterns handed to isUrlBlocked on its own: bare domains, with "*." and
\* with white space and capitals, a domain with a path, a URL prefix, and
\* patterns that are empty, or empty once trimmed or stripped of "*."
MatchRules ==
  {"facebook.com", "*.instagram.com", " Book.com", "twitter.com/explore",
   "http://a.io", " ", "*."}

MatchLists == SeqsUpTo(MatchRules, MaxRules)

\* tabs.onUpdated events: a navigation (changeInfo.url, with the same
\* tab.url), and events without changeInfo.url, of any status, with a tab.url
\* or none
TabEvents ==
  {[changeUrl |-> u, status |-> "loading", tabUrl |-> u] : u \in NavUrls}
    \cup [changeUrl : {""}, status : {"loading", "complete", ""},
          tabUrl : {"https://a.io/", ""}]

\* the masterHash field of an imported file: missing, or a string
ImportHashFields ==
  {[kind |-> "absent", v |-> ""]}
    \cup {[kind |-> "string", v |-> h] : h \in {"", sha256Hex("pw")}}

\* imported objects (the parsed JSON file) that validateImportedConfig accepts
ValidImports ==
  [sitesIsArray : {TRUE}, blockedSites : SeqsUpTo(ImportLines, MaxLines),
   blockedStorage : {"absent", "sync", "local"},
   masterHash : ImportHashFields]

\* and one for each reason it gives to refuse a file
InvalidImports ==
  {[sitesIsArray |-> FALSE, blockedSites |-> <<>>, blockedStorage |-> "sync",
    masterHash |-> [kind |-> "absent", v |-> ""]],
   [sitesIsArray |-> TRUE, blockedSites |-> <<>>, blockedStorage |-> "cloud",
    masterHash |-> [kind |-> "absent", v |-> ""]],
   [sitesIsArray |-> TRUE, blockedSites |-> <<>>, blockedStorage |-> "sync",
    masterHash |-> [kind |-> "number", v |-> ""]]}

ImportObjects == ValidImports \cup InvalidImports

\* parseSites on every text of the model
ParsedText == [text \in Texts |-> parseSites(text)]

\* ------------------------------------------------------------------------
\* State
\* ------------------------------------------------------------------------

VARIABLES
  \* chrome.storage
  blockedStorage,      \* local.blockedStorage as read with its default, "sync"
  blockedSites,        \* blockedSites of each area (a missing key reads as [])
  masterHash,          \* local.masterHash (a missing key reads as "")
  \* options page
  optionsScript,       \* which options script the page runs
  state,               \* state = { storageArea, prevBlockedSites, masterHash }
  pendingSave,         \* pendingSave: NoSave (null) or { newSites, newStorageArea, newPw }
  output,              \* the message the last step showed (#status, #confirmError,
                       \* #sb-error), or ""
  lastOp,              \* history: what the last step handled (a Save click with
                       \* what the form held, a resumption of onSubmit, the
                       \* closing of a tab), or NoOp when it was another step
  tasks,               \* the asynchronous handlers in flight, by kind
  \* background worker
  unlockedHostsByTab,  \* Map tabId -> Set(hosts); a missing key reads as the empty set
  checks,              \* the checkAndBlockTab calls in flight
  \* messages in flight
  showBlockMsgs,       \* SHOW_BLOCK, worker to tab
  unlockMsgs,          \* UNLOCK_TAB, tab to worker
  \* tabs and their pages
  tabOpen,             \* the tab exists
  sessionFlags,        \* sessionStorage of the tab: hosts h with sb_unlocked_h = "1"
  overlay,             \* the elements #sb-overlay-root of the tab's page, in document
                       \* order; NoOverlay when there is none
  blockTasks,          \* the handleBlockMessage calls awaiting getMasterHash
  submits,             \* per tab, the onSubmit call in flight
  \* the matcher on its own
  matcherCall,         \* the last call isUrlBlocked(url, patterns) made apart from
                       \* any tab, with its result, or NoCall
  \* the user's disk
  exportedFile         \* the payload of the last file that Export downloaded, or NoFile

storeVars == <<blockedStorage, blockedSites, masterHash>>
optVars == <<optionsScript, state, pendingSave, output, lastOp, tasks>>
bgVars == <<unlockedHostsByTab, checks>>
msgVars == <<showBlockMsgs, unlockMsgs>>
pageVars == <<tabOpen, sessionFlags, overlay, blockTasks, submits>>
blockVars == <<bgVars, msgVars, pageVars>>
vars == <<storeVars, optVars, blockVars, matcherCall, exportedFile>>

Tabs == {1, 2}
NoOverlay == <<>>
NoCall == [none |-> TRUE]
NoFile == [none |-> TRUE]

NoSave == [none |-> TRUE]
NoOp == [op |-> "none"]
Idle == [pc |-> "idle"]
TaskKinds == {"save", "confirm", "import", "export"}

\* storage reads with their defaults
\* getBlockedStorageArea / loadSettings: blockedStorage === "local" ? "local" : "sync"
AreaOf(v) == IF v = "local" THEN "local" ELSE "sync"

Init ==
  /\ blockedStorage = "sync"
  /\ blockedSites = [a \in Areas |-> <<>>]
  /\ masterHash = ""
  /\ optionsScript \in {"confirming", "plain"}
  /\ state = [storageArea |-> "sync", prevBlockedSites |-> <<>>, masterHash |-> ""]
  /\ pendingSave = NoSave
  /\ output = ""
  /\ lastOp = NoOp
  /\ tasks = [k \in TaskKinds |-> Idle]
  /\ unlockedHostsByTab = [t \in Tabs |-> {}]
  /\ checks = EmptyBag
  /\ showBlockMsgs = EmptyBag
  /\ unlockMsgs = EmptyBag
  /\ tabOpen = [t \in Tabs |-> TRUE]
  /\ sessionFlags = [t \in Tabs |-> {}]
  /\ overlay = [t \in Tabs |-> NoOverlay]
  /\ blockTasks = EmptyBag
  /\ submits = [t \in Tabs |-> Idle]
  /\ matcherCall = NoCall
  /\ exportedFile = NoFile

\* ------------------------------------------------------------------------
\* Options page with the removal confirmation (src/background.js, 160-546)
\* ------------------------------------------------------------------------

\* the persisted rule set: blockedSites of the area that blockedStorage names
PersistedRules == blockedSites[AreaOf(blockedStorage)]

\* Each running handler carries a history field, `before`: the persisted rule
\* set when it started.  The Confirm handler carries a second one, `typed`:
\* what the confirmation field held when it started.

\* a step that shows msg ("" for nothing)
Shows(msg) == output' = msg /\ lastOp' = NoOp /\ UNCHANGED <<matcherCall, exportedFile>>

\* a step of the options page, other than a Save click, that shows msg
OptionsStep(msg) == Shows(msg) /\ UNCHANGED blockVars

InFlight == Cardinality({k \in TaskKinds : tasks[k] # Idle})

\* a handler of kind k may start: none of its kind is running (the model keeps
\* one per kind) and the bound on running handlers is not reached
CanStart(k) == tasks[k] = Idle /\ InFlight < MaxInFlight

\* hideConfirmModal(): the part that changes state
hideConfirmModal == pendingSave' = NoSave

\* saveDecision without the rule "cannot remove unless a master password is set"
saveDecisionNoReject(prev, newSites, hash) ==
  IF hash # "" /\ Len(arrayRemoved(prev, newSites)) > 0 THEN "confirm" ELSE "save"

\* saveDecision asking for the password whenever the list changes
saveDecisionAnyChange(prev, newSites, hash) ==
  IF newSites = prev THEN "save" ELSE IF hash = "" THEN "reject" ELSE "confirm"

\* handleSaveClick, lines 368-388: what the click leads to
\*   "reject"  removals and no master password
\*   "confirm" removals and a master password: ask for it
\*   "save"    no removals: saveNow directly
saveDecision(prev, newSites, hash) ==
  LET removed == arrayRemoved(prev, newSites)
      hasRemovals == Len(removed) > 0
  IN IF hash = "" /\ hasRemovals THEN "reject"
     ELSE IF hash # "" /\ hasRemovals THEN "confirm"
     ELSE "save"

\* the first statement of saveNow issues storage("local").set({blockedStorage})
saveNowCall(who, args, before) ==
  tasks' = [tasks EXCEPT ![who] =
              [pc |-> "setArea", newSites |-> args.newSites,
               newStorageArea |-> args.newStorageArea, newPw |-> args.newPw,
               before |-> before]]

\* click on Save with the form holding (text, select, pw)
handleSaveClick(text, select, pw) ==
  /\ optionsScript = "confirming"
  /\ CanStart("save")
  /\ LET newStorageArea == AreaOf(select)
         newSites == ParsedText[text]
         newPw == Trim(pw)
         args == [newSites |-> newSites, newStorageArea |-> newStorageArea,
                  newPw |-> newPw]
         d == saveDecision(state.prevBlockedSites, newSites, state.masterHash)
     IN CASE d = "reject" ->
               /\ output' = "You cannot remove blocked sites without a master password."
               /\ UNCHANGED <<pendingSave, tasks>>
          [] d = "confirm" ->
               /\ pendingSave' = args
               /\ output' = ""
               /\ UNCHANGED tasks
          [] OTHER ->
               /\ saveNowCall("save", args, PersistedRules)
               /\ output' = ""
               /\ UNCHANGED pendingSave
  /\ lastOp' = [op |-> "handleSaveClick", newSites |-> ParsedText[text],
                newStorageArea |-> AreaOf(select), newPw |-> Trim(pw),
                typedPw |-> pw]
  /\ UNCHANGED <<storeVars, optionsScript, state, blockVars, matcherCall, exportedFile>>

\* saveNow resumes after storage("local").set({ blockedStorage })
saveNowSetArea(who) ==
  /\ tasks[who].pc = "setArea"
  /\ blockedStorage' = tasks[who].newStorageArea
  /\ tasks' = [tasks EXCEPT ![who].pc = "setSites"]
  /\ OptionsStep("")
  /\ UNCHANGED <<blockedSites, masterHash, optionsScript, state, pendingSave>>

\* the end of saveNow (lines 350-360) and of its caller
saveNowEnd(who, hash) ==
  /\ state' = [storageArea |-> tasks[who].newStorageArea,
               prevBlockedSites |-> tasks[who].newSites,
               masterHash |-> hash]
  /\ OptionsStep("Settings saved.")
  /\ tasks' = [tasks EXCEPT ![who] = Idle]
  /\ IF who = "confirm" THEN hideConfirmModal ELSE UNCHANGED pendingSave

\* saveNow updating the password hash whatever the field holds
passwordProvidedAlways(newPw) == TRUE

\* saveNow: "update password hash only if provided"
passwordProvided(newPw) == Len(Trim(newPw)) > 0

\* saveNow resumes after storage(newStorageArea).set({ blockedSites })
saveNowSetSites(who) ==
  /\ tasks[who].pc = "setSites"
  /\ blockedSites' = [blockedSites EXCEPT ![tasks[who].newStorageArea] = tasks[who].newSites]
  /\ IF passwordProvided(tasks[who].newPw)
     THEN /\ tasks' = [tasks EXCEPT ![who].pc = "setHash"]
          /\ OptionsStep("")
          /\ UNCHANGED <<state, pendingSave>>
     ELSE saveNowEnd(who, state.masterHash)
  /\ UNCHANGED <<blockedStorage, masterHash, optionsScript>>

\* saveNow resumes after sha256Hex and storage("local").set({ masterHash })
saveNowSetHash(who) ==
  /\ tasks[who].pc = "setHash"
  /\ LET hash == sha256Hex(Trim(tasks[who].newPw))
     IN /\ masterHash' = hash
        /\ saveNowEnd(who, hash)
  /\ UNCHANGED <<blockedStorage, blockedSites, optionsScript>>

\* verifyConfirmPassword accepting whatever is entered
verifyConfirmPasswordAny(entered, hash) == entered # ""

\* verifyConfirmPassword, after its await: the comparison
verifyConfirmPassword(entered, hash) == sha256Hex(entered) = hash

\* click on Confirm (or Enter) with `typed` in the confirmation field
confirmSaveClick(typed) ==
  /\ optionsScript = "confirming"
  /\ pendingSave # NoSave
  /\ CanStart("confirm")          \* confirmSaveBtn.disabled while one runs
  /\ LET entered == Trim(typed)
     IN IF entered = ""
        THEN /\ OptionsStep("Please enter your master password.")
             /\ UNCHANGED tasks
        ELSE /\ tasks' = [tasks EXCEPT !["confirm"] = [pc |-> "verify", entered |-> entered,
                                                          typed |-> typed,
                                                          before |-> PersistedRules]]
             /\ OptionsStep("")
  /\ UNCHANGED <<storeVars, optionsScript, state, pendingSave>>

\* the Confirm handler resumes after sha256Hex(entered)
confirmSaveVerified ==
  /\ tasks["confirm"].pc = "verify"
  /\ IF ~verifyConfirmPassword(tasks["confirm"].entered, state.masterHash)
     THEN /\ OptionsStep("Incorrect master password.")
          /\ tasks' = [tasks EXCEPT !["confirm"] = Idle]
     ELSE IF pendingSave = NoSave
     THEN \* saveNow(null) rejects: caught by the handler
          /\ OptionsStep("Unexpected error. Please try again.")
          /\ tasks' = [tasks EXCEPT !["confirm"] = Idle]
     ELSE /\ saveNowCall("confirm", pendingSave, tasks["confirm"].before)
          /\ OptionsStep("")
  /\ UNCHANGED <<storeVars, optionsScript, state, pendingSave>>

\* Cancel, Escape or a click on the backdrop
confirmCancel ==
  /\ optionsScript = "confirming"
  /\ pendingSave # NoSave
  /\ hideConfirmModal
  /\ OptionsStep("")
  /\ UNCHANGED <<storeVars, optionsScript, state, tasks>>

\* ------------------------------------------------------------------------
\* Import (both options scripts)
\* ------------------------------------------------------------------------

\* validateImportedConfig(obj): "" stands for null (the object is valid)
validateImportedConfig(obj) ==
  IF ~obj.sitesIsArray THEN "Missing or invalid 'blockedSites'."
  ELSE IF obj.blockedStorage \notin {"absent", "local", "sync"}
  THEN "Invalid 'blockedStorage' value."
  ELSE IF obj.masterHash.kind \notin {"absent", "string"}
  THEN "Invalid 'masterHash' value."
  ELSE ""

\* importedSites that also puts every entry in lower case
importedSitesFolded(script, list) ==
  [i \in DOMAIN normalizeSites(list) |-> ToLowerCase(normalizeSites(list)[i])]

\* the list importSettingsFromObject writes: normalizeSites(obj.blockedSites)
\* in src/background.js:451, obj.blockedSites as it is in src/options/options.js:173
importedSites(script, list) ==
  IF script = "confirming" THEN normalizeSites(list) ELSE list

\* a file is chosen: importSettingsFromObject(obj) up to its first await
importSettingsFromObject(obj) ==
  /\ CanStart("import")
  /\ LET err == validateImportedConfig(obj)
         area == AreaOf(obj.blockedStorage)
     IN IF err # ""
        THEN /\ OptionsStep(err)
             /\ UNCHANGED tasks
        ELSE /\ tasks' = [tasks EXCEPT !["import"] =
                           [pc |-> IF obj.masterHash.kind = "string"
                                   THEN "setHash" ELSE "setSites",
                            area |-> area, sites |-> obj.blockedSites,
                            hash |-> obj.masterHash.v, before |-> PersistedRules]]
             /\ OptionsStep("")
  /\ UNCHANGED <<storeVars, optionsScript, state, pendingSave>>

\* resumes after storage("local").set({ masterHash: obj.masterHash })
importSetHash ==
  /\ tasks["import"].pc = "setHash"
  /\ masterHash' = tasks["import"].hash
  /\ state' = IF optionsScript = "confirming"
              THEN [state EXCEPT !.masterHash = tasks["import"].hash]
              ELSE state
  /\ tasks' = [tasks EXCEPT !["import"].pc = "setSites"]
  /\ OptionsStep("")
  /\ UNCHANGED <<blockedStorage, blockedSites, optionsScript, pendingSave>>

\* resumes after storage(area).set({ blockedSites })
importSetSites ==
  /\ tasks["import"].pc = "setSites"
  /\ blockedSites' = [blockedSites EXCEPT ![tasks["import"].area] =
                        importedSites(optionsScript, tasks["import"].sites)]
  /\ tasks' = [tasks EXCEPT !["import"].pc = "setPref"]
  /\ OptionsStep("")
  /\ UNCHANGED <<blockedStorage, masterHash, optionsScript, state, pendingSave>>

\* resumes after storage("local").set({ blockedStorage: area }); refreshes the page
importSetPref ==
  /\ tasks["import"].pc = "setPref"
  /\ blockedStorage' = tasks["import"].area
  /\ state' = IF optionsScript = "confirming"
              THEN [state EXCEPT !.storageArea = tasks["import"].area,
                                 !.prevBlockedSites =
                                    importedSites(optionsScript, tasks["import"].sites)]
              ELSE state
  /\ OptionsStep("Imported settings.")
  /\ tasks' = [tasks EXCEPT !["import"] = Idle]
  /\ UNCHANGED <<blockedSites, masterHash, optionsScript, pendingSave>>

\* ------------------------------------------------------------------------
\* Export (both options scripts)
\* ------------------------------------------------------------------------

\* click on Export: exportSettings() up to its first await
exportSettings ==
  /\ CanStart("export")
  /\ tasks' = [tasks EXCEPT !["export"] = [pc |-> "readArea"]]
  /\ OptionsStep("")
  /\ UNCHANGED <<storeVars, optionsScript, state, pendingSave>>

\* resumes with local.blockedStorage
exportReadArea ==
  /\ tasks["export"].pc = "readArea"
  /\ tasks' = [tasks EXCEPT !["export"] = [pc |-> "readSites", area |-> AreaOf(blockedStorage)]]
  /\ OptionsStep("")
  /\ UNCHANGED <<storeVars, optionsScript, state, pendingSave>>

\* resumes with blockedSites of that area
exportReadSites ==
  /\ tasks["export"].pc = "readSites"
  /\ tasks' = [tasks EXCEPT !["export"] =
                 [pc |-> "readHash", area |-> tasks["export"].area,
                  sites |-> blockedSites[tasks["export"].area]]]
  /\ OptionsStep("")
  /\ UNCHANGED <<storeVars, optionsScript, state, pendingSave>>

\* resumes with local.masterHash: the payload is downloaded
exportReadHash ==
  /\ tasks["export"].pc = "readHash"
  /\ exportedFile' = [blockedStorage |-> tasks["export"].area,
                      blockedSites |-> tasks["export"].sites,
                      masterHash |-> masterHash]
  /\ tasks' = [tasks EXCEPT !["export"] = Idle]
  /\ output' = "Exported settings."
  /\ lastOp' = NoOp
  /\ UNCHANGED <<storeVars, optionsScript, state, pendingSave, blockVars, matcherCall>>

\* JSON.parse of the text that JSON.stringify made of the payload: every field
\* is present, blockedSites is an array and masterHash a string
parsedFile(payload) ==
  [sitesIsArray |-> TRUE, blockedSites |-> payload.blockedSites,
   blockedStorage |-> payload.blockedStorage,
   masterHash |-> [kind |-> "string", v |-> payload.masterHash]]

\* ------------------------------------------------------------------------
\* Options page without the confirmation (src/options/options.js)
\* ------------------------------------------------------------------------

\* click on Save: saveSettings() up to its first await
saveSettings(text, select) ==
  /\ optionsScript = "plain"
  /\ CanStart("save")
  /\ tasks' = [tasks EXCEPT !["save"] =
                [pc |-> "plainSetSites", storageArea |-> AreaOf(select),
                 sites |-> ParsedText[text], before |-> PersistedRules]]
  /\ OptionsStep("")
  /\ UNCHANGED <<storeVars, optionsScript, state, pendingSave>>

\* resumes after storage(storageArea).set({ blockedSites: sites })
saveSettingsSetSites ==
  /\ tasks["save"].pc = "plainSetSites"
  /\ blockedSites' = [blockedSites EXCEPT ![tasks["save"].storageArea] = tasks["save"].sites]
  /\ tasks' = [tasks EXCEPT !["save"].pc = "plainSetPref"]
  /\ OptionsStep("")
  /\ UNCHANGED <<blockedStorage, masterHash, optionsScript, state, pendingSave>>

\* resumes after storage("local").set({ blockedStorage }); the password field
\* is read now and holds pw
saveSettingsSetPref(pw) ==
  /\ tasks["save"].pc = "plainSetPref"
  /\ blockedStorage' = tasks["save"].storageArea
  /\ LET newPw == Trim(pw)
     IN IF Len(newPw) > 0
        THEN /\ tasks' = [tasks EXCEPT !["save"] = [pc |-> "plainSetHash", newPw |-> newPw,
                                                       before |-> tasks["save"].before]]
             /\ OptionsStep("")
        ELSE /\ tasks' = [tasks EXCEPT !["save"] = Idle]
             /\ OptionsStep("Settings saved.")
  /\ UNCHANGED <<blockedSites, masterHash, optionsScript, state, pendingSave>>

\* resumes after sha256Hex and storage("local").set({ masterHash: hash })
saveSettingsSetHash ==
  /\ tasks["save"].pc = "plainSetHash"
  /\ masterHash' = sha256Hex(tasks["save"].newPw)
  /\ tasks' = [tasks EXCEPT !["save"] = Idle]
  /\ OptionsStep("Settings saved.")
  /\ UNCHANGED <<blockedStorage, blockedSites, optionsScript, state, pendingSave>>

\* ------------------------------------------------------------------------
\* The settings side of the extension
\* ------------------------------------------------------------------------

NextSettings ==
  \/ \E text \in Texts, select \in Areas, pw \in NewPasswords :
        handleSaveClick(text, select, pw)
  \/ \E who \in {"save", "confirm"} : saveNowSetArea(who)
  \/ \E who \in {"save", "confirm"} : saveNowSetSites(who)
  \/ \E who \in {"save", "confirm"} : saveNowSetHash(who)
  \/ \E typed \in Passwords : confirmSaveClick(typed)
  \/ confirmSaveVerified
  \/ confirmCancel
  \/ \E obj \in ImportObjects : importSettingsFromObject(obj)
  \/ importSetHash
  \/ importSetSites
  \/ importSetPref
  \/ \E text \in Texts, select \in Areas : saveSettings(text, select)
  \/ saveSettingsSetSites
  \/ \E pw \in NewPasswords : saveSettingsSetPref(pw)
  \/ saveSettingsSetHash

SpecSettings == Init /\ [][NextSettings]_vars

\* ------------------------------------------------------------------------
\* Background worker (src/background.js, 1-154)
\* ------------------------------------------------------------------------

\* asynchronous work of the blocking side under way: checks, messages,
\* handleBlockMessage calls and onSubmit calls
Pending ==
  BagCardinality(checks) + BagCardinality(showBlockMsgs) + BagCardinality(blockTasks)
    + BagCardinality(unlockMsgs) + Cardinality({t \in Tabs : submits[t] # Idle})

One(x) == SetToBag({x})

\* a step of the blocking side that shows msg in the overlay ("" for nothing);
\* the options page is not involved
BlockStep(msg) == Shows(msg) /\ UNCHANGED <<optionsScript, state, pendingSave, tasks>>

\* the same for a step that the history records as op
BlockStepOf(op, msg) ==
  /\ output' = msg
  /\ lastOp' = op
  /\ UNCHANGED <<optionsScript, state, pendingSave, tasks, matcherCall, exportedFile>>

\* isUnlocked(tabId, host)
isUnlocked(tabId, host) == host \in unlockedHostsByTab[tabId]

\* markUnlocked that adds the host for every tab
markUnlockedAllTabs(tabId, host) == [t \in Tabs |-> unlockedHostsByTab[t] \cup {host}]

\* markUnlocked that forgets the hosts unlocked before
markUnlockedOnly(tabId, host) == [unlockedHostsByTab EXCEPT ![tabId] = {host}]

\* markUnlocked(tabId, host): the map afterwards
markUnlocked(tabId, host) == [unlockedHostsByTab EXCEPT ![tabId] = @ \cup {host}]

\* clearTabState that leaves the entry in place
clearTabStateKeep(tabId) == unlockedHostsByTab

\* clearTabState(tabId): the map afterwards
clearTabState(tabId) == [unlockedHostsByTab EXCEPT ![tabId] = {}]

\* checkAndBlockTab that never reaches sendBlockMessage
shouldSendBlockNever(tabId, url, sites) == FALSE

\* shouldSendBlock looking up the unlock table by the URL
shouldSendBlockByUrl(tabId, url, sites) ==
  IF Len(sites) = 0 THEN FALSE
  ELSE IF getHost(url) = "" THEN FALSE
  ELSE IF isUnlocked(tabId, url) THEN FALSE
  ELSE isUrlBlocked(url, sites)

\* shouldSendBlock without the test of the unlock table
shouldSendBlockNoUnlock(tabId, url, sites) ==
  /\ Len(sites) # 0
  /\ getHost(url) # ""
  /\ isUrlBlocked(url, sites)

\* checkAndBlockTab, lines 117-128: TRUE when sendBlockMessage is reached,
\* sites being what getBlockedSites returned
shouldSendBlock(tabId, url, sites) ==
  IF Len(sites) = 0 THEN FALSE
  ELSE LET host == getHost(url)
       IN IF host = "" THEN FALSE
          ELSE IF isUnlocked(tabId, host) THEN FALSE
          ELSE isUrlBlocked(url, sites)

\* the tabs.onUpdated listener, lines 134-138: the url it hands to
\* checkAndBlockTab, "" when it calls nothing or checkAndBlockTab returns at once
updatedUrl(changeUrl, status, tabUrl) ==
  IF changeUrl # "" THEN changeUrl
  ELSE IF status \in {"loading", "complete"} /\ tabUrl # "" THEN tabUrl
  ELSE ""

\* tabs.onUpdated fires for tabId with changeInfo = { url: changeUrl, status }
\* and tab.url = tabUrl ("" for a missing field); checkAndBlockTab runs up to
\* its first await, the storage read of getBlockedStorageArea
tabsOnUpdated(tabId, changeUrl, status, tabUrl) ==
  /\ tabOpen[tabId]
  /\ LET url == updatedUrl(changeUrl, status, tabUrl)
     IN IF url = "" THEN UNCHANGED checks
        ELSE checks' = checks (+) One([tab |-> tabId, url |-> url, pc |-> "area",
                                       area |-> "none"])
  /\ BlockStep("")
  /\ UNCHANGED <<storeVars, unlockedHostsByTab, msgVars, pageVars>>

\* getBlockedStorageArea resumes with local.blockedStorage; getBlockedSites goes
\* on to read blockedSites of that area
checkReadArea(c) ==
  /\ BagIn(c, checks) /\ c.pc = "area"
  /\ checks' = (checks (-) One(c))
                 (+) One([c EXCEPT !.pc = "sites", !.area = AreaOf(blockedStorage)])
  /\ BlockStep("")
  /\ UNCHANGED <<storeVars, unlockedHostsByTab, msgVars, pageVars>>

\* getBlockedSites resumes with the list of the area; the rest of
\* checkAndBlockTab, with sendBlockMessage
checkDecide(c) ==
  /\ BagIn(c, checks) /\ c.pc = "sites"
  /\ checks' = checks (-) One(c)
  /\ showBlockMsgs' =
       IF shouldSendBlock(c.tab, c.url, cleanedSites(blockedSites[c.area]))
       THEN showBlockMsgs (+) One([tab |-> c.tab, host |-> getHost(c.url), url |-> c.url])
       ELSE showBlockMsgs
  /\ BlockStep("")
  /\ UNCHANGED <<storeVars, unlockedHostsByTab, unlockMsgs, pageVars>>

\* tabs.onRemoved fires for tabId: clearTabState.  The tab's page, the
\* handlers running in it and its sessionStorage go with the tab; a message
\* the page had already sent stays in flight
tabsOnRemoved(tabId) ==
  /\ tabOpen[tabId]
  /\ unlockedHostsByTab' = clearTabState(tabId)
  /\ tabOpen' = [tabOpen EXCEPT ![tabId] = FALSE]
  /\ sessionFlags' = [sessionFlags EXCEPT ![tabId] = {}]
  /\ overlay' = [overlay EXCEPT ![tabId] = NoOverlay]
  /\ blockTasks' = [b \in {x \in DOMAIN blockTasks : x.tab # tabId} |-> blockTasks[b]]
  /\ submits' = [submits EXCEPT ![tabId] = Idle]
  /\ BlockStepOf([op |-> "tabs.onRemoved", tab |-> tabId,
                  had |-> unlockedHostsByTab[tabId]], "")
  /\ UNCHANGED <<storeVars, checks, msgVars>>

\* runtime.onMessage receives UNLOCK_TAB; sender.tab.id is a positive number
\* and msg.host a non-empty string
runtimeOnMessage(m) ==
  /\ BagIn(m, unlockMsgs)
  /\ unlockMsgs' = unlockMsgs (-) One(m)
  /\ unlockedHostsByTab' = markUnlocked(m.tab, m.host)
  /\ BlockStep("")
  /\ UNCHANGED <<storeVars, checks, showBlockMsgs, pageVars>>

\* the browser unloads the idle worker and starts it again for the next event
\* ("until SW unload", line 123): the module is evaluated anew, line 16
workerRestart ==
  /\ checks = EmptyBag
  /\ unlockedHostsByTab' = [t \in Tabs |-> {}]
  /\ BlockStep("")
  /\ UNCHANGED <<storeVars, checks, msgVars, pageVars>>

\* ------------------------------------------------------------------------
\* Content script and overlay (src/content.js, src/blocker/blocker.js)
\* ------------------------------------------------------------------------

NotConfigured == "No master password set. Open Settings and create one."
Incorrect == "Incorrect password. Please try again."
NoPasswordSet == "No master password is set. Open Settings to create one."

\* the tab loads a document: the overlay of the old one and the handlers that
\* ran in it are gone, the sessionStorage of the tab stays
pageLoad(tabId) ==
  /\ tabOpen[tabId]
  /\ overlay' = [overlay EXCEPT ![tabId] = NoOverlay]
  /\ blockTasks' = [b \in {x \in DOMAIN blockTasks : x.tab # tabId} |-> blockTasks[b]]
  /\ submits' = [submits EXCEPT ![tabId] = Idle]
  /\ BlockStep("")
  /\ UNCHANGED <<storeVars, bgVars, msgVars, tabOpen, sessionFlags>>

\* createOverlay that does not look for an overlay in the page
createOverlayNoCheck(roots, root) == Append(roots, root)

\* createOverlay, lines 32-40 and 100: the overlay elements of the page
\* afterwards; root is the element it builds
createOverlay(roots, root) == IF roots # NoOverlay THEN roots ELSE Append(roots, root)

\* removeOverlay: getElementById finds the first element with the id
removeOverlay(roots) == IF roots = NoOverlay THEN roots ELSE Tail(roots)

\* the content script of m.tab receives SHOW_BLOCK: handleBlockMessage up to
\* its await of getMasterHash; a message to a closed tab is lost (lastError)
deliverShowBlock(m) ==
  /\ BagIn(m, showBlockMsgs)
  /\ showBlockMsgs' = showBlockMsgs (-) One(m)
  /\ blockTasks' =
       IF ~tabOpen[m.tab] THEN blockTasks
       ELSE IF m.host = "" THEN blockTasks
       ELSE IF m.host \in sessionFlags[m.tab] THEN blockTasks
       ELSE IF overlay[m.tab] # NoOverlay THEN blockTasks
       ELSE blockTasks (+) One([tab |-> m.tab, host |-> m.host])
  /\ BlockStep("")
  /\ UNCHANGED <<storeVars, bgVars, unlockMsgs, tabOpen, sessionFlags, overlay, submits>>

\* handleBlockMessage resumes with the stored digest: createOverlay
blockTaskResume(b) ==
  /\ BagIn(b, blockTasks)
  /\ blockTasks' = blockTasks (-) One(b)
  /\ overlay' = [overlay EXCEPT ![b.tab] =
                   createOverlay(@, [host |-> b.host, hasPassword |-> masterHash # ""])]
  /\ BlockStep(IF overlay[b.tab] = NoOverlay /\ masterHash = "" THEN NoPasswordSet ELSE "")
  /\ UNCHANGED <<storeVars, bgVars, msgVars, tabOpen, sessionFlags, submits>>

\* click on Unlock, or Enter in the password field, with typed in the field
\* (both are disabled when the overlay was created with hasPassword false):
\* handleUnlock, and onSubmit up to its await of getMasterHash.  The model
\* keeps one onSubmit per tab
overlaySubmit(tabId, typed) ==
  /\ overlay[tabId] # NoOverlay
  /\ Head(overlay[tabId]).hasPassword
  /\ submits[tabId] = Idle
  /\ submits' = [submits EXCEPT ![tabId] =
                   [pc |-> "readHash", entered |-> typed, host |-> Head(overlay[tabId]).host,
                    savedHash |-> ""]]
  /\ BlockStep("")
  /\ UNCHANGED <<storeVars, bgVars, msgVars, tabOpen, sessionFlags, overlay, blockTasks>>

\* onSubmit that takes an empty stored digest for a digest
notConfiguredNever(savedHash) == FALSE

\* onSubmit, line 62: !savedHash
notConfigured(savedHash) == savedHash = ""

\* onSubmit resumes with the stored digest (lines 60-69)
submitReadHash(tabId) ==
  /\ submits[tabId].pc = "readHash"
  /\ IF notConfigured(masterHash)
     THEN /\ submits' = [submits EXCEPT ![tabId] = Idle]
          /\ BlockStepOf([op |-> "onSubmit", tab |-> tabId], NotConfigured)
     ELSE /\ submits' = [submits EXCEPT ![tabId].pc = "compare",
                                        ![tabId].savedHash = masterHash]
          /\ BlockStepOf([op |-> "onSubmit", tab |-> tabId], "")
  /\ UNCHANGED <<storeVars, bgVars, msgVars, tabOpen, sessionFlags, overlay, blockTasks>>

\* onSubmit accepting whatever is entered
passwordAcceptedAny(entered, savedHash) == TRUE

\* onSubmit comparing the digest of the candidate as typed
passwordAcceptedUntrimmed(entered, savedHash) == sha256Hex(entered) = savedHash

\* onSubmit comparing the trimmed candidate itself with the stored digest
passwordAcceptedNoDigest(entered, savedHash) == Trim(entered) = savedHash

\* onSubmit, lines 68-71: the digest of the trimmed candidate is the stored one
passwordAccepted(entered, savedHash) == sha256Hex(Trim(entered)) = savedHash

\* onSubmit resumes with the digest of the candidate (lines 71-86)
submitCompare(tabId) ==
  /\ submits[tabId].pc = "compare"
  /\ submits' = [submits EXCEPT ![tabId] = Idle]
  /\ IF passwordAccepted(submits[tabId].entered, submits[tabId].savedHash)
     THEN /\ sessionFlags' = [sessionFlags EXCEPT ![tabId] = @ \cup {submits[tabId].host}]
          /\ overlay' = [overlay EXCEPT ![tabId] = removeOverlay(@)]
          /\ unlockMsgs' = unlockMsgs (+) One([tab |-> tabId, host |-> submits[tabId].host])
          /\ BlockStepOf([op |-> "onSubmit", tab |-> tabId], "")
     ELSE /\ BlockStepOf([op |-> "onSubmit", tab |-> tabId], Incorrect)
          /\ UNCHANGED <<sessionFlags, overlay, unlockMsgs>>
  /\ UNCHANGED <<storeVars, bgVars, showBlockMsgs, tabOpen, blockTasks>>

\* ------------------------------------------------------------------------
\* The blocking side of the extension.  The options page appears as its
\* writes of the rule lists and of the digest to chrome.storage, one key at a
\* time; the location preference stays as it is.
\* ------------------------------------------------------------------------

\* storage(area).set({ blockedSites: list })
storageSetSites(area, list) ==
  /\ blockedSites' = [blockedSites EXCEPT ![area] = list]
  /\ BlockStep("")
  /\ UNCHANGED <<blockedStorage, masterHash, blockVars>>

\* storage("local").set({ masterHash: hash })
storageSetHash(hash) ==
  /\ masterHash' = hash
  /\ BlockStep("")
  /\ UNCHANGED <<blockedStorage, blockedSites, blockVars>>

\* the model lets asynchronous work start while less than `most` is under way
Room(most) == Pending < most

NextBlock ==
  \/ \E t \in Tabs, e \in TabEvents :
        /\ updatedUrl(e.changeUrl, e.status, e.tabUrl) # "" => Room(MaxPending)
        /\ tabsOnUpdated(t, e.changeUrl, e.status, e.tabUrl)
  \/ \E c \in BagToSet(checks) : checkReadArea(c)
  \/ \E c \in BagToSet(checks) : checkDecide(c)
  \/ \E t \in Tabs : tabsOnRemoved(t)
  \/ \E m \in BagToSet(unlockMsgs) : runtimeOnMessage(m)
  \/ workerRestart
  \/ \E t \in Tabs : pageLoad(t)
  \/ \E m \in BagToSet(showBlockMsgs) : deliverShowBlock(m)
  \/ \E b \in BagToSet(blockTasks) : blockTaskResume(b)
  \/ \E t \in Tabs, typed \in Passwords : Room(MaxPending) /\ overlaySubmit(t, typed)
  \/ \E t \in Tabs : submitReadHash(t)
  \/ \E t \in Tabs : submitCompare(t)
  \/ \E area \in Areas, list \in BlockLists : storageSetSites(area, list)
  \/ \E hash \in Hashes : storageSetHash(hash)

\* the options page open is the one with the removal confirmation
InitBlock == Init /\ optionsScript = "confirming"

SpecBlock == InitBlock /\ [][NextBlock]_vars

\* ------------------------------------------------------------------------
\* The matcher on its own
\* ------------------------------------------------------------------------

\* isUrlBlocked(url, patterns) is called, once, and returns
callIsUrlBlocked(url, patterns) ==
  /\ matcherCall = NoCall
  /\ matcherCall' = [url |-> url, patterns |-> patterns,
                     result |-> isUrlBlocked(url, patterns)]
  /\ UNCHANGED <<storeVars, optVars, blockVars, exportedFile>>

NextMatch == \E url \in MatchUrls, patterns \in MatchLists : callIsUrlBlocked(url, patterns)

SpecMatch == Init /\ [][NextMatch]_vars

\* ------------------------------------------------------------------------
\* The master password from the options page to the overlay: a page of
\* tab 1 that a rule covers, and the options page with the confirmation
\* saving rules and passwords
\* ------------------------------------------------------------------------

\* the block lists typed while the password is followed
SecretTexts == {<<>>, <<"a.io">>}

NextSecret ==
  \/ \E text \in SecretTexts, pw \in Passwords : handleSaveClick(text, "sync", pw)
  \/ \E who \in {"save", "confirm"} : saveNowSetArea(who)
  \/ \E who \in {"save", "confirm"} : saveNowSetSites(who)
  \/ \E who \in {"save", "confirm"} : saveNowSetHash(who)
  \/ \E typed \in Passwords : confirmSaveClick(typed)
  \/ confirmSaveVerified
  \/ confirmCancel
  \/ Room(MaxPending) /\ tabsOnUpdated(1, "https://a.io/", "loading", "https://a.io/")
  \/ \E c \in BagToSet(checks) : checkReadArea(c)
  \/ \E c \in BagToSet(checks) : checkDecide(c)
  \/ \E m \in BagToSet(showBlockMsgs) : deliverShowBlock(m)
  \/ \E b \in BagToSet(blockTasks) : blockTaskResume(b)
  \/ \E typed \in Passwords : Room(MaxPending) /\ overlaySubmit(1, typed)
  \/ submitReadHash(1)
  \/ submitCompare(1)

SpecSecret == InitBlock /\ [][NextSecret]_vars

\* ------------------------------------------------------------------------
\* Export and import of the exported file, with saves before and between;
\* the user starts an operation when the one before has ended
\* ------------------------------------------------------------------------

\* the block lists typed before and between
RoundTripTexts == {<<>>, <<" a.io">>, <<"a.io", "B.io/x">>}

NextRoundTrip ==
  \/ \E text \in RoundTripTexts, select \in Areas, pw \in NewPasswords :
        InFlight = 0 /\ handleSaveClick(text, select, pw)
  \/ saveNowSetArea("save")
  \/ saveNowSetSites("save")
  \/ saveNowSetHash("save")
  \/ \E text \in RoundTripTexts, select \in Areas : InFlight = 0 /\ saveSettings(text, select)
  \/ saveSettingsSetSites
  \/ \E pw \in NewPasswords : saveSettingsSetPref(pw)
  \/ saveSettingsSetHash
  \/ InFlight = 0 /\ exportSettings
  \/ exportReadArea
  \/ exportReadSites
  \/ exportReadHash
  \/ InFlight = 0 /\ exportedFile # NoFile /\ importSettingsFromObject(parsedFile(exportedFile))
  \/ importSetHash
  \/ importSetSites
  \/ importSetPref

SpecRoundTrip == Init /\ [][NextRoundTrip]_vars

\* ------------------------------------------------------------------------
\* Saves that add rules and change the location of the rule list, by either
\* options script, while tab 1 navigates to a page that a rule covers
\* ------------------------------------------------------------------------

\* the block lists typed while the location changes
AreaTexts == {<<"a.io">>, <<"a.io", "B.io/x">>}

NextAreaSwitch ==
  \/ \E text \in AreaTexts, select \in Areas : handleSaveClick(text, select, "")
  \/ saveNowSetArea("save")
  \/ saveNowSetSites("save")
  \/ \E text \in AreaTexts, select \in Areas : saveSettings(text, select)
  \/ saveSettingsSetSites
  \/ saveSettingsSetPref("")
  \/ Room(MaxPending) /\ tabsOnUpdated(1, "https://a.io/", "loading", "https://a.io/")
  \/ \E c \in BagToSet(checks) : checkReadArea(c)
  \/ \E c \in BagToSet(checks) : checkDecide(c)
  \/ \E m \in BagToSet(showBlockMsgs) : deliverShowBlock(m)
  \/ \E b \in BagToSet(blockTasks) : blockTaskResume(b)

SpecAreaSwitch == Init /\ [][NextAreaSwitch]_vars

\* ------------------------------------------------------------------------
\* The overlay of one page: tab 1 navigates to a page that a rule covers,
\* each navigation raising several tab-update events, with more messages and
\* handlers under way at the same time
\* ------------------------------------------------------------------------

NextOverlay ==
  \/ storageSetSites("sync", <<" A.io", "b.io/x">>)
  \/ storageSetHash(sha256Hex("pw"))
  \/ \E status \in {"loading", "complete"} :
        Room(MaxOverlayPending) /\ tabsOnUpdated(1, "", status, "https://a.io/")
  \/ \E c \in BagToSet(checks) : checkReadArea(c)
  \/ \E c \in BagToSet(checks) : checkDecide(c)
  \/ \E m \in BagToSet(unlockMsgs) : runtimeOnMessage(m)
  \/ pageLoad(1)
  \/ \E m \in BagToSet(showBlockMsgs) : deliverShowBlock(m)
  \/ \E b \in BagToSet(blockTasks) : blockTaskResume(b)
  \/ \E typed \in {" pw ", "no"} : Room(MaxOverlayPending) /\ overlaySubmit(1, typed)
  \/ submitReadHash(1)
  \/ submitCompare(1)

SpecOverlay == InitBlock /\ [][NextOverlay]_vars

\* ------------------------------------------------------------------------
\* Navigation of tab 1 to a page that a rule covers and to one that none
\* covers, while rules are saved and the host is unlocked; the storage reads
\* of a check complete
\* ------------------------------------------------------------------------

NextNav ==
  \/ \E list \in BlockLists : storageSetSites("sync", list)
  \/ storageSetHash(sha256Hex("pw"))
  \/ \E u \in {"https://a.io/", "https://b.io/"} :
        Room(MaxOverlayPending) /\ tabsOnUpdated(1, u, "loading", u)
  \/ Room(MaxOverlayPending) /\ tabsOnUpdated(1, "", "complete", "https://a.io/")
  \/ \E c \in BagToSet(checks) : checkReadArea(c)
  \/ \E c \in BagToSet(checks) : checkDecide(c)
  \/ \E m \in BagToSet(unlockMsgs) : runtimeOnMessage(m)
  \/ \E m \in BagToSet(showBlockMsgs) : deliverShowBlock(m)
  \/ \E b \in BagToSet(blockTasks) : blockTaskResume(b)
  \/ Room(MaxOverlayPending) /\ overlaySubmit(1, " pw ")
  \/ submitReadHash(1)
  \/ submitCompare(1)

\* the checks that the navigations of NextNav start, awaiting their first read
\* and awaiting their second
AwaitingArea ==
  {[tab |-> 1, url |-> u, pc |-> "area", area |-> "none"] :
     u \in {"https://a.io/", "https://b.io/"}}

AwaitingSites ==
  {[tab |-> 1, url |-> u, pc |-> "sites", area |-> a] :
     u \in {"https://a.io/", "https://b.io/"}, a \in {"sync", "local"}}

\* checkDecide(c) can be taken: every other conjunct of it sets a variable
awaitsSites(c) == BagIn(c, checks) /\ c.pc = "sites"

\* "assuming the storage reads complete": every check that awaits a storage
\* read resumes, each on its own (a promise of chrome.storage settles whatever
\* the other checks do).  The second conjunct is WF_vars(checkDecide(c)) with
\* ENABLED <<checkDecide(c)>>_vars written as awaitsSites(c)
ReadsComplete ==
  /\ \A c \in AwaitingArea : WF_vars(checkReadArea(c))
  /\ \A c \in AwaitingSites :
        []<>(~awaitsSites(c)) \/ []<><<checkDecide(c)>>_vars

FairSpecNav == InitBlock /\ [][NextNav]_vars /\ ReadsComplete

\* ------------------------------------------------------------------------
\* Properties of the settings side
\* ------------------------------------------------------------------------

\* the step handled a Save click whose proposal drops a rule of the old rule set
ClickDropsRule ==
  /\ lastOp'.op = "handleSaveClick"
  /\ Len(arrayRemoved(state.prevBlockedSites, lastOp'.newSites)) > 0

\* the step handled a Save click whose proposal drops no rule of the old rule set
ClickDropsNothing ==
  /\ lastOp'.op = "handleSaveClick"
  /\ Len(arrayRemoved(state.prevBlockedSites, lastOp'.newSites)) = 0

\* C1: a handler of the options page that ends with a rule of the rule set
\* persisted at its start no longer persisted is the Confirm handler ending the
\* save it started after verifying the entered master password; a Save click,
\* an import or a password change ends with every such rule still persisted.
C1_RemovalOnlyAfterReauth ==
  [][\A k \in TaskKinds :
       (/\ tasks[k] # Idle
        /\ tasks'[k] = Idle
        /\ \E r \in Range(tasks[k].before) : r \notin Range(PersistedRules'))
         => k = "confirm" /\ tasks[k].pc \in {"setSites", "setHash"}]_vars

\* C2: a Save click whose proposal drops a rule while no master password hash
\* is stored changes nothing: no storage key, no pending save, not the page's
\* old rule set, and no save is started, whatever the new-password field holds.
C2_RemovalWithoutSecretRejected ==
  [][(ClickDropsRule /\ masterHash = "")
       => /\ UNCHANGED <<storeVars, state, pendingSave, tasks>>
          /\ output' = "You cannot remove blocked sites without a master password."]_vars

\* C2 witness: such a click, with a new password typed in, has been refused
C2_Witness ==
  /\ lastOp.op = "handleSaveClick"
  /\ Len(arrayRemoved(state.prevBlockedSites, lastOp.newSites)) > 0
  /\ masterHash = ""
  /\ lastOp.newPw # ""
  /\ output = "You cannot remove blocked sites without a master password."

\* C3: a Save click whose proposal drops a rule while a master password hash is
\* stored writes nothing and starts no save: the proposal becomes the pending
\* save; and the save of a pending proposal starts only in the step in which
\* the Confirm handler finds the entered password to digest to the stored hash.
C3_RemovalHeldUntilVerified ==
  [][/\ (ClickDropsRule /\ masterHash # "")
          => /\ UNCHANGED <<storeVars, state, tasks>>
             /\ pendingSave' = [newSites |-> lastOp'.newSites,
                                newStorageArea |-> lastOp'.newStorageArea,
                                newPw |-> lastOp'.newPw]
     /\ (tasks'["confirm"].pc = "setArea" /\ tasks["confirm"].pc # "setArea")
          => /\ tasks["confirm"].pc = "verify"
             /\ masterHash # ""
             /\ sha256Hex(tasks["confirm"].entered) = masterHash
             /\ pendingSave # NoSave
             /\ tasks'["confirm"].newSites = pendingSave.newSites
             /\ UNCHANGED storeVars]_vars

\* C3 witness: the held proposal is being committed after the verification,
\* and its first write has happened
C3_Witness ==
  /\ tasks["confirm"].pc = "setSites"
  /\ pendingSave # NoSave
  /\ Len(arrayRemoved(state.prevBlockedSites, pendingSave.newSites)) > 0

\* C4: a Save click whose proposal drops no rule of the old rule set starts
\* the save in the same step, with the proposal as typed, and records no
\* pending save, whether or not a master password hash is stored.
C4_NoRemovalSavedDirectly ==
  [][ClickDropsNothing
       => /\ tasks'["save"] = [pc |-> "setArea", newSites |-> lastOp'.newSites,
                               newStorageArea |-> lastOp'.newStorageArea,
                               newPw |-> lastOp'.newPw, before |-> PersistedRules]
          /\ UNCHANGED <<storeVars, state, pendingSave>>]_vars

\* C4 witness: with a master password set, a proposal that only reorders the
\* old rules is being saved without a confirmation
C4_Witness ==
  /\ lastOp.op = "handleSaveClick"
  /\ masterHash # ""
  /\ lastOp.newSites # state.prevBlockedSites
  /\ Range(lastOp.newSites) = Range(state.prevBlockedSites)
  /\ tasks["save"].pc = "setArea"
  /\ pendingSave = NoSave

\* ------------------------------------------------------------------------
\* Properties of the blocking side
\* ------------------------------------------------------------------------

\* the step ends the checkAndBlockTab call c: it resumes with the rule list
Decides(c) == BagIn(c, checks) /\ c.pc = "sites" /\ checks' = checks (-) One(c)

\* the step resumes the onSubmit call of tab t
ResumesSubmit(t) == lastOp' = [op |-> "onSubmit", tab |-> t]

\* C5: a navigation check of (tab, url) sends SHOW_BLOCK to that tab, for the
\* url and its host, if and only if the host is not unlocked for the tab and
\* the url matches the rule set that the check read; otherwise it does
\* nothing; and SHOW_BLOCK is sent by nothing but such a check.
C5_ChallengeIffLockedAndMatching ==
  [][/\ \A c \in BagToSet(checks) : Decides(c) =>
          LET host == getHost(c.url)
              rules == cleanedSites(blockedSites[c.area])
              msg == [tab |-> c.tab, host |-> host, url |-> c.url]
          IN /\ IF ~isUnlocked(c.tab, host) /\ isUrlBlocked(c.url, rules)
                THEN showBlockMsgs' = showBlockMsgs (+) One(msg)
                ELSE showBlockMsgs' = showBlockMsgs
             /\ UNCHANGED <<storeVars, unlockedHostsByTab, unlockMsgs, pageVars>>
     /\ (\E m \in BagToSet(showBlockMsgs') : CopiesIn(m, showBlockMsgs') > CopiesIn(m, showBlockMsgs))
           => \E c \in BagToSet(checks) : Decides(c)]_vars

\* a challenge is on its way to tab 1 for b.io while a.io is unlocked there
C5_Witness ==
  /\ BagIn([tab |-> 1, host |-> "b.io", url |-> "https://b.io/x"], showBlockMsgs)
  /\ isUnlocked(1, "a.io")
  /\ ~isUnlocked(1, "b.io")

\* C6: no pair is unlocked at the start; a pair (tab, host) enters the unlock
\* table only when the worker receives UNLOCK_TAB for it; UNLOCK_TAB for
\* (tab, host) is sent only by the onSubmit call of the overlay shown for host
\* in tab, when the digest of the trimmed candidate is the digest it read; and
\* the digest it read is the stored one.
C6_UnlockedOnlyByAcceptedResponse ==
  /\ \A t \in Tabs : unlockedHostsByTab[t] = {}
  /\ [][/\ \A t \in Tabs : \A h \in unlockedHostsByTab'[t] \ unlockedHostsByTab[t] :
              /\ BagIn([tab |-> t, host |-> h], unlockMsgs)
              /\ unlockMsgs' = unlockMsgs (-) One([tab |-> t, host |-> h])
        /\ \A m \in BagToSet(unlockMsgs') :
              CopiesIn(m, unlockMsgs') > CopiesIn(m, unlockMsgs)
                => /\ submits[m.tab].pc = "compare"
                   /\ submits[m.tab].host = m.host
                   /\ overlay[m.tab] # NoOverlay /\ Head(overlay[m.tab]).host = m.host
                   /\ submits[m.tab].savedHash # ""
                   /\ sha256Hex(Trim(submits[m.tab].entered)) = submits[m.tab].savedHash
        /\ \A t \in Tabs : (submits[t].pc # "compare" /\ submits'[t].pc = "compare")
                => /\ submits[t].pc = "readHash"
                   /\ submits'[t].savedHash = masterHash
                   /\ submits'[t].entered = submits[t].entered
                   /\ submits'[t].host = submits[t].host]_vars

\* a.io is unlocked in tab 1, and nothing else is
C6_Witness ==
  /\ unlockedHostsByTab = [t \in Tabs |-> IF t = 1 THEN {"a.io"} ELSE {}]
  /\ "a.io" \in sessionFlags[1]
  /\ masterHash # ""

\* C7: when onSubmit finds no stored digest, it shows the not-configured
\* message, which is not the wrong-password message, and ends: no pair is
\* unlocked, no UNLOCK_TAB is sent, the session flags and the overlay stay.
C7_NoDigestNeverAccepted ==
  [][\A t \in Tabs :
       (ResumesSubmit(t) /\ submits[t].pc = "readHash" /\ masterHash = "")
         => /\ output' = NotConfigured
            /\ NotConfigured # Incorrect
            /\ submits'[t] = Idle
            /\ UNCHANGED <<storeVars, unlockedHostsByTab, msgVars, sessionFlags, overlay>>]_vars

\* a response has just met the not-configured outcome
C7_Witness ==
  /\ output = NotConfigured
  /\ masterHash = ""
  /\ \E t \in Tabs :
       /\ lastOp = [op |-> "onSubmit", tab |-> t]
       /\ overlay[t] # NoOverlay /\ Head(overlay[t]).hasPassword
       /\ ~isUnlocked(t, Head(overlay[t]).host)

\* C8: when onSubmit compares the digests, a candidate whose trimmed digest
\* is not the one read is answered with the wrong-password message and
\* nothing else changes: no pair is unlocked, no flag set, the overlay stays
\* with its Unlock button enabled and no onSubmit running, so the next
\* response is taken; a candidate whose trimmed digest is the one read is
\* accepted, whatever was answered before.
C8_WrongPasswordRejectedRetryAllowed ==
  [][\A t \in Tabs :
       (ResumesSubmit(t) /\ submits[t].pc = "compare")
         => IF sha256Hex(Trim(submits[t].entered)) # submits[t].savedHash
            THEN /\ output' = Incorrect
                 /\ UNCHANGED <<storeVars, unlockedHostsByTab, msgVars, sessionFlags, overlay>>
                 /\ overlay'[t] # NoOverlay /\ Head(overlay'[t]).hasPassword
                 /\ submits'[t] = Idle
            ELSE /\ unlockMsgs' = unlockMsgs (+) One([tab |-> t, host |-> submits[t].host])
                 /\ overlay'[t] = NoOverlay
                 /\ submits[t].host \in sessionFlags'[t]]_vars

\* a response has just been rejected as wrong and the next one can be given
C8_Witness ==
  /\ output = Incorrect
  /\ \E t \in Tabs :
       /\ lastOp = [op |-> "onSubmit", tab |-> t]
       /\ overlay[t] # NoOverlay /\ Head(overlay[t]).hasPassword
       /\ submits[t] = Idle
       /\ ~isUnlocked(t, Head(overlay[t]).host)
       /\ masterHash # ""

\* a check of a url whose host is unlocked for the tab sends nothing
UnlockedNotChallenged ==
  \A c \in BagToSet(checks) :
    (Decides(c) /\ isUnlocked(c.tab, getHost(c.url))) => showBlockMsgs' = showBlockMsgs

\* the step is a restart of the worker: the table starts empty again
Restarts ==
  /\ checks = EmptyBag
  /\ unlockedHostsByTab' = [t \in Tabs |-> {}]
  /\ UNCHANGED <<storeVars, msgVars, pageVars>>

\* C9 as stated: an unlocked pair (tab, host) leaves the unlock table only in
\* the step that reports the tab closed, and until then a check of a url of
\* that host in that tab sends no challenge.
C9_UnlockedUntilTabClosed ==
  [][/\ \A t \in Tabs : \A h \in unlockedHostsByTab[t] \ unlockedHostsByTab'[t] :
           tabOpen[t] /\ ~tabOpen'[t]
     /\ UnlockedNotChallenged]_vars

\* C9, amended: an unlocked pair (tab, host) leaves the unlock table only in
\* the step that reports the tab closed or in a restart of the worker, and
\* until then a check of a url of that host in that tab sends no challenge;
\* navigation, the unlock of another host and the closing of another tab
\* leave it in the table.
C9_UnlockedUntilTabClosedOrRestart ==
  [][/\ \A t \in Tabs : \A h \in unlockedHostsByTab[t] \ unlockedHostsByTab'[t] :
           (tabOpen[t] /\ ~tabOpen'[t]) \/ Restarts
     /\ UnlockedNotChallenged]_vars

\* both hosts are unlocked in tab 1 after the other tab was closed
C9_Witness ==
  /\ unlockedHostsByTab[1] = Hosts
  /\ tabOpen[1]
  /\ ~tabOpen[2]

\* C10: in the state after tabs.onRemoved for a tab, no host is unlocked for
\* that tab.
C10_ClosedTabHasNoUnlockedHost ==
  [][\A t \in Tabs :
       (tabOpen[t] /\ ~tabOpen'[t]) => \A d \in Hosts : d \notin unlockedHostsByTab'[t]]_vars

\* a tab in which both hosts were unlocked has just been closed
C10_Witness ==
  /\ lastOp.op = "tabs.onRemoved"
  /\ lastOp.had = Hosts
  /\ \A d \in Hosts : ~isUnlocked(lastOp.tab, d)

\* the step hands UNLOCK_TAB m to the worker
Receives(m) == BagIn(m, unlockMsgs) /\ unlockMsgs' = unlockMsgs (-) One(m)

\* the step hands SHOW_BLOCK m to the content script of its tab
Delivers(m) == BagIn(m, showBlockMsgs) /\ showBlockMsgs' = showBlockMsgs (-) One(m)

\* C11: the step in which onSubmit accepts a response for (tab, host) leaves
\* the stored rule lists, location and digest and the unlock table as they
\* are and sets the session flag of that pair only; the step in which the
\* worker receives its UNLOCK_TAB adds that pair to the unlock table and
\* changes isUnlocked for no other host of the tab and no host of another
\* tab, nor the storage.
C11_AcceptanceTouchesOnePair ==
  [][/\ \A t \in Tabs :
          (/\ ResumesSubmit(t)
           /\ submits[t].pc = "compare"
           /\ sha256Hex(Trim(submits[t].entered)) = submits[t].savedHash)
            => /\ UNCHANGED <<storeVars, unlockedHostsByTab>>
               /\ \A t2 \in Tabs, h2 \in Hosts :
                    <<t2, h2>> # <<t, submits[t].host>>
                      => (h2 \in sessionFlags'[t2] <=> h2 \in sessionFlags[t2])
     /\ \A m \in BagToSet(unlockMsgs) :
          Receives(m)
            => /\ UNCHANGED <<storeVars, sessionFlags>>
               /\ m.host \in unlockedHostsByTab'[m.tab]
               /\ \A t2 \in Tabs, h2 \in Hosts :
                    <<t2, h2>> # <<m.tab, m.host>>
                      => (h2 \in unlockedHostsByTab'[t2] <=> isUnlocked(t2, h2))]_vars

\* each tab has its own host unlocked, and not the other's
C11_Witness ==
  /\ unlockedHostsByTab = [t \in Tabs |-> IF t = 1 THEN {"a.io"} ELSE {"b.io"}]
  /\ sessionFlags = [t \in Tabs |-> IF t = 1 THEN {"a.io"} ELSE {"b.io"}]

\* C12: a restart of the worker leaves no pair unlocked, and from then on a
\* SHOW_BLOCK that reaches an open tab without an overlay, for a host that
\* the worker holds locked for that tab, makes the content script go on to
\* present the challenge.
C12_ChallengedAgainAfterRestart ==
  [][/\ Restarts => \A t \in Tabs, h \in Hosts : h \notin unlockedHostsByTab'[t]
     /\ \A m \in BagToSet(showBlockMsgs) :
          (/\ Delivers(m)
           /\ tabOpen[m.tab]
           /\ overlay[m.tab] = NoOverlay
           /\ ~isUnlocked(m.tab, m.host))
            => BagIn([tab |-> m.tab, host |-> m.host], blockTasks')]_vars

CalledWithOne == matcherCall # NoCall /\ Len(matcherCall.patterns) = 1

\* the pattern as the loop reads it: trimmed, in lower case
Lowered(raw) == ToLowerCase(Trim(raw))

HasScheme(p) == StartsWith(p, "http://") \/ StartsWith(p, "https://")

Recased(str) == {str, ToLowerCase(str), ToUpperCase(str)}

\* C15: isUrlBlocked(u, [r]) is the same when u, r or both are written in
\* lower case or in upper case.
C15_MatchIgnoresCase ==
  CalledWithOne
    => \A u \in Recased(matcherCall.url), r \in Recased(matcherCall.patterns[1]) :
         isUrlBlocked(u, <<r>>) = matcherCall.result

\* a pattern with a capital matched a URL with capitals elsewhere
C15_Witness ==
  /\ CalledWithOne
  /\ matcherCall.url = "https://www.FACEBOOK.com/feed"
  /\ matcherCall.patterns = <<" Book.com">>
  /\ matcherCall.result = TRUE

\* C16: for a URL with a host and a pattern that is not empty, has no scheme
\* and no "/", with d the pattern without a leading "*.": isUrlBlocked is
\* true if and only if the host is d, ends with "." d, or contains d; and
\* the two examples match.
C16_BareDomainRule ==
  /\ (CalledWithOne /\ getHost(matcherCall.url) # "")
       => LET p == Lowered(matcherCall.patterns[1])
              d == IF StartsWith(p, "*.") THEN SubSeq(p, 3, Len(p)) ELSE p
              host == ToLowerCase(getHost(matcherCall.url))
          IN (p # "" /\ ~HasScheme(p) /\ ~Includes(p, "/"))
               => (matcherCall.result
                     <=> (host = d \/ EndsWith(host, "." \o d) \/ Includes(host, d)))
  /\ isUrlBlocked("https://instagram.com/", <<"*.instagram.com">>)
  /\ isUrlBlocked("https://www.FACEBOOK.com/feed", <<"facebook.com">>)

\* "*.instagram.com" matched https://instagram.com/
C16_Witness ==
  /\ CalledWithOne
  /\ matcherCall.url = "https://instagram.com/"
  /\ matcherCall.patterns = <<"*.instagram.com">>
  /\ matcherCall.result = TRUE

\* C17: for a URL with a host and a pattern that begins with http:// or
\* https://, isUrlBlocked is true if and only if the URL in lower case
\* starts with the pattern in lower case; a URL that only contains the
\* pattern further on is not matched.
C17_SchemeRuleIsPrefix ==
  (CalledWithOne /\ getHost(matcherCall.url) # "")
    => LET p == Lowered(matcherCall.patterns[1])
       IN HasScheme(p)
            => (matcherCall.result <=> StartsWith(ToLowerCase(matcherCall.url), p))

\* a URL that contains the pattern with a scheme in its query was not matched
C17_Witness ==
  /\ CalledWithOne
  /\ matcherCall.url = "https://x.io/?u=http://a.io"
  /\ matcherCall.patterns = <<"http://a.io">>
  /\ matcherCall.result = FALSE

Reordered(arr, q) == [i \in DOMAIN arr |-> arr[q[i]]]

\* C19: isUrlBlocked(u, patterns) is true if and only if some non-empty
\* pattern of the list matches u when it is the only pattern; it is the same
\* for every order of the list; it is false for the empty list, for which
\* checkAndBlockTab sends no challenge.
C19_AnyRuleAnyOrder ==
  matcherCall # NoCall
    => /\ matcherCall.result
            <=> \E i \in DOMAIN matcherCall.patterns :
                  /\ matcherCall.patterns[i] # ""
                  /\ isUrlBlocked(matcherCall.url, <<matcherCall.patterns[i]>>)
       /\ \A q \in Permutations(DOMAIN matcherCall.patterns) :
            isUrlBlocked(matcherCall.url, Reordered(matcherCall.patterns, q))
              = matcherCall.result
       /\ ~isUrlBlocked(matcherCall.url, <<>>)
       /\ \A t \in Tabs : ~shouldSendBlock(t, matcherCall.url, <<>>)

\* a list whose second pattern alone matches was matched
C19_Witness ==
  /\ matcherCall # NoCall
  /\ matcherCall.url = "https://www.FACEBOOK.com/feed"
  /\ matcherCall.patterns = <<"twitter.com/explore", "facebook.com">>
  /\ matcherCall.result = TRUE

\* ------------------------------------------------------------------------
\* Properties of the stored rule sets
\* ------------------------------------------------------------------------

\* every entry is trimmed and in lower case, none is empty, and no two
\* entries are equal once trimmed and lower-cased
Normalized(list) ==
  /\ \A i \in DOMAIN list : list[i] # "" /\ list[i] = ToLowerCase(Trim(list[i]))
  /\ \A i, j \in DOMAIN list :
       i # j => ToLowerCase(Trim(list[i])) # ToLowerCase(Trim(list[j]))

\* C20: every rule set that the options page with the removal confirmation
\* has written to storage, by a save or an import, is normalized: trimmed,
\* case-folded, without empty entries and without duplicates.
C20_StoredRulesNormalized ==
  optionsScript = "confirming" => \A a \in Areas : Normalized(blockedSites[a])

\* ------------------------------------------------------------------------
\* Properties of the master password
\* ------------------------------------------------------------------------

\* the passwords that, typed into the new-password field, give the digest hash
SecretOf(hash) == {s \in Passwords : Trim(s) # "" /\ sha256Hex(Trim(s)) = hash}

\* C21: the new password is trimmed before it is digested and stored, and a
\* candidate is trimmed before it is digested and compared: with the digest of
\* a saved password s stored, the overlay accepts the candidate c, and the
\* removal confirmation accepts the entry c, if and only if trim(c) = trim(s).
C21_SecretTrimmedOnBothSides ==
  [][/\ lastOp'.op = "handleSaveClick"
          => /\ tasks'["save"] # tasks["save"]
                  => tasks'["save"].newPw = Trim(lastOp'.typedPw)
             /\ pendingSave' # pendingSave
                  => pendingSave'.newPw = Trim(lastOp'.typedPw)
     /\ \A who \in {"save", "confirm"} :
          (tasks[who].pc = "setHash" /\ tasks'[who] = Idle)
            => /\ masterHash' = sha256Hex(Trim(tasks[who].newPw))
               /\ state'.masterHash = masterHash'
     /\ \A t \in Tabs :
          (ResumesSubmit(t) /\ submits[t].pc = "compare")
            => \A s \in SecretOf(submits[t].savedHash) :
                 /\ unlockMsgs' # unlockMsgs <=> Trim(submits[t].entered) = Trim(s)
                 /\ output' = Incorrect <=> Trim(submits[t].entered) # Trim(s)
     /\ output' = "Please enter your master password." => tasks' = tasks
     /\ (tasks["confirm"].pc = "verify" /\ tasks'["confirm"] # tasks["confirm"])
          => \A s \in SecretOf(masterHash) :
               output' = "Incorrect master password."
                 <=> Trim(tasks["confirm"].typed) # Trim(s)]_vars

\* with the digest of "pw" stored, the overlay of tab 1 has accepted a
\* candidate and the removal confirmation has accepted an entry and is saving
C21_Witness ==
  /\ masterHash = sha256Hex("pw")
  /\ "a.io" \in sessionFlags[1]
  /\ tasks["confirm"].pc = "setArea"

\* ------------------------------------------------------------------------
\* Properties of export and import
\* ------------------------------------------------------------------------

\* C22: the exported payload holds the persisted location, rule list and
\* digest as they are when Export runs; and when the import of the exported
\* file ends, the persisted location, the persisted rule list (same rules, same
\* order) and the digest are those of the payload.
C22_ExportImportRoundTrip ==
  /\ [][tasks["export"].pc = "readHash" /\ tasks'["export"] = Idle
          => /\ exportedFile'.blockedStorage = blockedStorage
             /\ exportedFile'.blockedSites = PersistedRules
             /\ exportedFile'.masterHash = masterHash]_vars
  /\ [](output = "Imported settings."
          => /\ blockedStorage = exportedFile.blockedStorage
             /\ PersistedRules = exportedFile.blockedSites
             /\ masterHash = exportedFile.masterHash)

\* the import of a file with a digest, two rules (one with a capital) and the
\* location "local" has ended, with the page that normalizes what it imports
C22_Witness ==
  /\ output = "Imported settings."
  /\ optionsScript = "confirming"
  /\ exportedFile.blockedStorage = "local"
  /\ exportedFile.blockedSites = <<"a.io", "B.io/x">>
  /\ exportedFile.masterHash = sha256Hex("pw")

\* ------------------------------------------------------------------------
\* Properties of the pending save
\* ------------------------------------------------------------------------

\* the Confirm handler runs while its proposal has been abandoned: the modal
\* was closed (pendingSave reset) after the handler started
ConfirmAbandoned == tasks["confirm"] # Idle /\ pendingSave = NoSave

\* C23: when the proposal of a running Confirm handler has been abandoned,
\* whether the handler awaits the verification or is in the middle of saveNow,
\* the handler goes no further than to end, and writes nothing to storage.
C23_AbandonedNeverCommitted ==
  [][(ConfirmAbandoned /\ tasks'["confirm"] # tasks["confirm"])
       => tasks'["confirm"] = Idle /\ UNCHANGED storeVars]_vars

\* ------------------------------------------------------------------------
\* Properties of a save that interleaves with a navigation check
\* ------------------------------------------------------------------------

\* a save is writing the location and the rule list
SaveInProgress ==
  tasks["save"].pc \in {"setArea", "setSites", "plainSetSites", "plainSetPref"}

\* the rule list that the save in progress writes
BeingSaved ==
  IF tasks["save"].pc \in {"plainSetSites", "plainSetPref"}
  THEN tasks["save"].sites
  ELSE tasks["save"].newSites

\* C24: a navigation check that, while a save is in progress, ends with the
\* rule list of the location that storage names as the active one has read
\* the rule set persisted before the save or the rule set being saved.
C24_CheckReadsOldOrNewRules ==
  [][\A c \in BagToSet(checks) :
       (Decides(c) /\ SaveInProgress /\ c.area = AreaOf(blockedStorage))
         => blockedSites[c.area] \in {tasks["save"].before, BeingSaved}]_vars

\* ------------------------------------------------------------------------
\* Properties of the overlay
\* ------------------------------------------------------------------------

\* the step puts an overlay element into the page of tab t
CreatesOverlay(t) == Len(overlay'[t]) > Len(overlay[t])

\* C25: an overlay is not created in the page of a tab for a host whose
\* unlock flag is set in the sessionStorage of that tab.
C25_NoOverlayForUnlockedHost ==
  [][\A t \in Tabs :
       CreatesOverlay(t) => overlay'[t][Len(overlay'[t])].host \notin sessionFlags[t]]_vars

\* C26: the page of a tab holds at most one overlay element.
C26_AtMostOneOverlay == \A t \in Tabs : Len(overlay[t]) <= 1

\* the page of tab 1 holds an overlay while a handleBlockMessage call that
\* found none is about to call createOverlay
C26_Witness ==
  /\ Len(overlay[1]) = 1
  /\ \E b \in BagToSet(blockTasks) : b.tab = 1

\* ------------------------------------------------------------------------
\* Properties of the stored digest
\* ------------------------------------------------------------------------

\* the step is one of the save that `who` runs (saveNow, or saveSettings)
SaveStep(who) == tasks[who] # Idle /\ tasks'[who] # tasks[who]

\* C27: a step of a save changes the stored digest only to the digest of the
\* trimmed new password, and only when that is not empty: a save with an
\* empty or blank new-password field leaves the digest as it is, no save
\* empties a stored digest, and no save stores the digest of "".
C27_EmptyPasswordKeepsDigest ==
  [][\A who \in {"save", "confirm"} :
       SaveStep(who)
         => /\ \/ masterHash' = masterHash
               \/ /\ Trim(tasks[who].newPw) # ""
                  /\ masterHash' = sha256Hex(Trim(tasks[who].newPw))
            /\ masterHash # "" => masterHash' # ""
            /\ masterHash' = sha256Hex("") => masterHash = sha256Hex("")]_vars

\* a save with an empty new password has written the location and is about
\* to write the rule list, with the digest of "pw" stored
C27_Witness ==
  /\ tasks["save"].pc = "setSites"
  /\ tasks["save"].newPw = ""
  /\ masterHash = sha256Hex("pw")

\* ------------------------------------------------------------------------
\* Properties of a navigation
\* ------------------------------------------------------------------------

\* a tab-update event of tab t for url has started a check that has read
\* nothing yet
Started(t, url) ==
  BagIn([tab |-> t, url |-> url, pc |-> "area", area |-> "none"], checks)

\* the persisted rule set covers url
Covered(url) == isUrlBlocked(url, cleanedSites(PersistedRules))

\* SHOW_BLOCK for url is on its way to tab t
Challenged(t, url) ==
  BagIn([tab |-> t, host |-> getHost(url), url |-> url], showBlockMsgs)

\* C28 as stated: a check started for a url that the rule set covers and whose
\* host is not unlocked for the tab leads to SHOW_BLOCK for that tab and url.
C28_NavigationLeadsToChallenge ==
  \A t \in Tabs, url \in NavUrls :
    (Started(t, url) /\ Covered(url) /\ ~isUnlocked(t, getHost(url)))
      ~> Challenged(t, url)

\* C28: a check started for a url leads to SHOW_BLOCK for that tab and url,
\* or to the rule set no longer covering the url, or to the host being
\* unlocked for the tab.
C28_NavigationLeadsToChallengeOrChange ==
  \A t \in Tabs, url \in NavUrls :
    Started(t, url)
      ~> (Challenged(t, url) \/ ~Covered(url) \/ isUnlocked(t, getHost(url)))

\* SHOW_BLOCK for https://a.io/ is on its way to tab 1, which shows no overlay
C28_Witness ==
  /\ Challenged(1, "https://a.io/")
  /\ Covered("https://a.io/")
  /\ ~isUnlocked(1, "a.io")
  /\ overlay[1] = NoOverlay

====
